---------------------------- MODULE Spec2Model ----------------------------
(***************************************************************************)
(* A model of the Bigtable convenience client (bigtable-client 0.23.7).    *)
(*                                                                         *)
(* The repository holds the client class twice:                            *)
(*   lib/BigtableClient.ts  the client that runs the TTL sweep itself      *)
(*                          (runJob / deleteExpiredData), called "lib"     *)
(*   unnamed/part_000       the client that writes sharded ttl# markers    *)
(*                          and hands the sweep to JobTTLEvent, "part"     *)
(* Strings whose structure the code inspects (row keys, column names,      *)
(* marker keys, JSON text) are sequences of one-character strings, so that *)
(* split, concatenation, JSON.stringify and JSON.parse are computed.       *)
(***************************************************************************)
EXTENDS Integers, Sequences, FiniteSets, TLC

(***************************************************************************)
(* Strings                                                                 *)
(***************************************************************************)

\* s.indexOf(d) from position i (1-based); 0 when d does not occur.
RECURSIVE IndexFrom(_, _, _)
IndexFrom(s, d, i) ==
    IF i > Len(s) THEN 0
    ELSE IF s[i] = d THEN i
    ELSE IndexFrom(s, d, i + 1)

\* String.prototype.split(d) for a one-character separator d.
RECURSIVE split(_, _)
split(s, d) ==
    LET k == IndexFrom(s, d, 1) IN
    IF k = 0 THEN << s >>
    ELSE << SubSeq(s, 1, k - 1) >> \o split(SubSeq(s, k + 1, Len(s)), d)

\* arr[i] of a JavaScript array (0-based); undefined is modelled as << >>,
\* which the callers treat as falsy exactly like undefined.
jsIndex(arr, i) == IF i + 1 <= Len(arr) THEN arr[i + 1] ELSE << >>

(***************************************************************************)
(* JavaScript values and the cell codec                                    *)
(***************************************************************************)

Undefined == [t |-> "undefined", v |-> 0]
Null    == [t |-> "null", v |-> 0]
Bool(b) == [t |-> "bool", v |-> b]
Num(n)  == [t |-> "num", v |-> n]
Str(s)  == [t |-> "str", v |-> s]
Arr(a)  == [t |-> "arr", v |-> a]
Obj(o)  == [t |-> "obj", v |-> o]   \* o: sequence of << key, value >> pairs

Digits == << "0", "1", "2", "3", "4", "5", "6", "7", "8", "9" >>

DigitVal(c) == CHOOSE d \in 0..9 : Digits[d + 1] = c

IsDigit(c) == \E d \in 1..10 : Digits[d] = c

\* Number.prototype.toString() of a non-negative integer.
RECURSIVE natToString(_)
natToString(n) ==
    IF n < 10 THEN << Digits[n + 1] >>
    ELSE natToString(n \div 10) \o << Digits[(n % 10) + 1] >>

toString(n) == IF n < 0 THEN << "-" >> \o natToString(-n) ELSE natToString(n)

\* The quoting JSON.stringify applies to a string: " and \ are escaped.
RECURSIVE quoteChars(_)
quoteChars(s) ==
    IF s = << >> THEN << >>
    ELSE (IF Head(s) \in {"\"", "\\"} THEN << "\\", Head(s) >> ELSE << Head(s) >>)
         \o quoteChars(Tail(s))

quote(s) == << "\"" >> \o quoteChars(s) \o << "\"" >>

\* JSON.stringify(value): the text of a JSON-representable value.
RECURSIVE JSONstringify(_)
RECURSIVE stringifyItems(_)
RECURSIVE stringifyMembers(_)
JSONstringify(x) ==
    CASE x.t = "null" -> << "n", "u", "l", "l" >>
      [] x.t = "bool" -> IF x.v THEN << "t", "r", "u", "e" >>
                         ELSE << "f", "a", "l", "s", "e" >>
      [] x.t = "num"  -> toString(x.v)
      [] x.t = "str"  -> quote(x.v)
      [] x.t = "arr"  -> << "[" >> \o stringifyItems(x.v) \o << "]" >>
      [] x.t = "obj"  -> << "{" >> \o stringifyMembers(x.v) \o << "}" >>
stringifyItems(a) ==
    IF a = << >> THEN << >>
    ELSE JSONstringify(Head(a))
         \o (IF Tail(a) = << >> THEN << >> ELSE << "," >> \o stringifyItems(Tail(a)))
stringifyMembers(o) ==
    IF o = << >> THEN << >>
    ELSE quote(Head(o)[1]) \o << ":" >> \o JSONstringify(Head(o)[2])
         \o (IF Tail(o) = << >> THEN << >> ELSE << "," >> \o stringifyMembers(Tail(o)))

\* A parse result: ok, the value read and the position after it.
Fail == [ok |-> FALSE, val |-> Null, next |-> 0]
Got(x, i) == [ok |-> TRUE, val |-> x, next |-> i]

RECURSIVE skipWs(_, _)
skipWs(s, i) == IF i <= Len(s) /\ s[i] = " " THEN skipWs(s, i + 1) ELSE i

HasAt(s, i, w) == i + Len(w) - 1 <= Len(s) /\ SubSeq(s, i, i + Len(w) - 1) = w

\* digits of s from i on: << value, position after the last digit >>
RECURSIVE readDigits(_, _, _)
readDigits(s, i, acc) ==
    IF i <= Len(s) /\ IsDigit(s[i])
    THEN readDigits(s, i + 1, acc * 10 + DigitVal(s[i]))
    ELSE << acc, i >>

\* JSON number: -?(0|[1-9][0-9]*); fractions and exponents are outside the
\* alphabet of the model.
parseNumber(s, i) ==
    LET neg == i <= Len(s) /\ s[i] = "-"
        j   == IF neg THEN i + 1 ELSE i
    IN  IF ~(j <= Len(s) /\ IsDigit(s[j])) THEN Fail
        ELSE IF s[j] = "0" THEN Got(Num(0), j + 1)
        ELSE LET r == readDigits(s, j, 0)
             IN  Got(Num(IF neg THEN -r[1] ELSE r[1]), r[2])

\* JSON string body from i (after the opening quote): the characters up to the
\* closing quote, with \" and \\ unescaped.
RECURSIVE parseChars(_, _, _)
parseChars(s, i, acc) ==
    IF i > Len(s) THEN Fail
    ELSE IF s[i] = "\"" THEN Got(Str(acc), i + 1)
    ELSE IF s[i] = "\\"
         THEN IF i + 1 <= Len(s) /\ s[i + 1] \in {"\"", "\\"}
              THEN parseChars(s, i + 2, Append(acc, s[i + 1]))
              ELSE Fail
    ELSE parseChars(s, i + 1, Append(acc, s[i]))

RECURSIVE parseValue(_, _)
RECURSIVE parseItems(_, _, _)
RECURSIVE parseMembers(_, _, _)
parseValue(s, i0) ==
    LET i == skipWs(s, i0) IN
    IF i > Len(s) THEN Fail
    ELSE IF HasAt(s, i, << "n", "u", "l", "l" >>) THEN Got(Null, i + 4)
    ELSE IF HasAt(s, i, << "t", "r", "u", "e" >>) THEN Got(Bool(TRUE), i + 4)
    ELSE IF HasAt(s, i, << "f", "a", "l", "s", "e" >>) THEN Got(Bool(FALSE), i + 5)
    ELSE IF s[i] = "\"" THEN parseChars(s, i + 1, << >>)
    ELSE IF s[i] = "[" THEN
         LET j == skipWs(s, i + 1) IN
         IF j <= Len(s) /\ s[j] = "]" THEN Got(Arr(<< >>), j + 1)
         ELSE parseItems(s, j, << >>)
    ELSE IF s[i] = "{" THEN
         LET j == skipWs(s, i + 1) IN
         IF j <= Len(s) /\ s[j] = "}" THEN Got(Obj(<< >>), j + 1)
         ELSE parseMembers(s, j, << >>)
    ELSE parseNumber(s, i)
parseItems(s, i, acc) ==
    LET r == parseValue(s, i) IN
    IF ~r.ok THEN Fail
    ELSE LET j == skipWs(s, r.next) IN
         IF j > Len(s) THEN Fail
         ELSE IF s[j] = "]" THEN Got(Arr(Append(acc, r.val)), j + 1)
         ELSE IF s[j] = "," THEN parseItems(s, j + 1, Append(acc, r.val))
         ELSE Fail
parseMembers(s, i0, acc) ==
    LET i == skipWs(s, i0) IN
    IF ~(i <= Len(s) /\ s[i] = "\"") THEN Fail
    ELSE LET k == parseChars(s, i + 1, << >>) IN
         IF ~k.ok THEN Fail
         ELSE LET c == skipWs(s, k.next) IN
              IF ~(c <= Len(s) /\ s[c] = ":") THEN Fail
              ELSE LET r == parseValue(s, c + 1) IN
                   IF ~r.ok THEN Fail
                   ELSE LET j == skipWs(s, r.next)
                            o == Append(acc, << k.val.v, r.val >>)
                        IN  IF j > Len(s) THEN Fail
                            ELSE IF s[j] = "}" THEN Got(Obj(o), j + 1)
                            ELSE IF s[j] = "," THEN parseMembers(s, j + 1, o)
                            ELSE Fail

\* JSON.parse(text): the value, or a failure when JSON.parse throws.
JSONparse(s) ==
    LET r == parseValue(s, 1) IN
    IF r.ok /\ skipWs(s, r.next) = Len(s) + 1 THEN r ELSE Fail

\* JSON.parse(x) first converts a non-string x to its string form.
String(x) == IF x.t = "str" THEN x.v ELSE JSONstringify(x)

\* JavaScript truthiness of a value.
truthy(x) ==
    CASE x.t = "null" -> FALSE
      [] x.t = "undefined" -> FALSE
      [] x.t = "bool" -> x.v
      [] x.t = "num"  -> x.v # 0
      [] x.t = "str"  -> x.v # << >>
      [] OTHER        -> TRUE

\* insert's sanitizer: objects are serialised, falsy values become "".
sanitize(value) ==
    LET sanitizedValue ==
            IF truthy(value) /\ value.t \in {"arr", "obj", "null"}
            THEN Str(JSONstringify(value))
            ELSE value
    IN  IF truthy(sanitizedValue) THEN sanitizedValue ELSE Str(<< >>)

\* getParsedValue: JSON.parse, and the value as it is when that throws.
getParsedValue(value) ==
    LET r == JSONparse(String(value)) IN
    IF r.ok THEN r.val ELSE value

(***************************************************************************)
(* Configuration, inputs and bounds                                        *)
(***************************************************************************)

DEFAULT_COLUMN == << "value" >>
COUNTS == << "counts" >>
TTL == << "ttl" >>

\* config.columnFamily, and the metadata family `${columnFamily}_metadata`
cfName == << "f" >>
DEFAULT_TTL_SCAN_INTERVAL_MS == 5000
DEFAULT_MIN_JITTER_MS == 2000
DEFAULT_MAX_JITTER_MS == 30000
DEFAULT_CLUSTER_COUNT == 3
DEFAULT_MURMUR_SEED == 1
\* 1000: the code's milliseconds per second, and microseconds per millisecond
\* of a cell timestamp (metaCell.timestamp / 1000).
MsPerSecond == 1000

\* Bounds of the model.
MaxTicks == 3      \* the clock runs from 0 to MaxTicks seconds
MaxOps == 2        \* foreground calls started in one behaviour
MaxFail == 1       \* store calls that fail in one behaviour
MaxClose == 2      \* calls of close() in one behaviour

\* Inputs of the foreground calls.
RowKeys == { << "u" >>, << "u", ":", "1" >> }
\* the column argument; << >> is "no column given"
ColumnArgs == { << >>, << "value", ":", "x" >> }
TTLs == { 0, 1, 2 }
\* part: values of deltaJitterMs, the random part of the jitter
JitterDeltas == { 0, 1000 }
Values == { Str(<< "alice" >>) }

(***************************************************************************)
(* State                                                                   *)
(***************************************************************************)

VARIABLES
    constructed,    \* the arguments of the constructor after config and instance
    impl,           \* which client runs: "lib" or "part"
    table,          \* primary table: << rowKey, column >> -> stored value
    meta,           \* metadata table: rowKey -> (qualifier -> [value, timestamp])
    now,            \* Date.now(), in ms
    isInitialized,  \* this.isInitialized
    tov,            \* the loop whose setTimeout handle this.tov holds; 0: undefined
    loops,          \* sweep loops: loop id -> [pc, deadline, tasks, due]
    calls,          \* calls in progress: name -> call record
    nops,           \* foreground calls started so far
    nfail,          \* store calls failed so far
    closed,         \* history: close() has been called, and the loops then in flight
    wr,             \* history: cell -> the last foreground call that touched it
    swept,          \* history: cells a clean sweep cycle ran over after expiry
    ret             \* the result of the last read call

vars == << constructed, impl, table, meta, now, isInitialized, tov, loops, calls, nops,
           nfail, closed, wr, swept, ret >>

\* new BigtableClient(config, instance, 1000): the interval is one clock tick
\* of the model and the arguments after it are left out
NotGiven ==
    [intervalInMs |-> Num(1 * MsPerSecond), minJitterMs |-> Undefined,
     maxJitterMs |-> Undefined, clusterCount |-> Undefined, murmurSeed |-> Undefined]

\* lib: this.intervalInMs = intervalInMs
\* part: this.intervalInMs = intervalInMs || DEFAULT_TTL_SCAN_INTERVAL_MS
intervalInMs ==
    IF impl = "part" /\ ~truthy(constructed.intervalInMs)
    THEN DEFAULT_TTL_SCAN_INTERVAL_MS
    ELSE constructed.intervalInMs.v

\* this.minJitterMs = minJitterMs || DEFAULT_MIN_JITTER_MS
minJitterMs ==
    IF truthy(constructed.minJitterMs) THEN constructed.minJitterMs.v
    ELSE DEFAULT_MIN_JITTER_MS

\* this.maxJitterMs = maxJitterMs || DEFAULT_MAX_JITTER_MS
maxJitterMs ==
    IF truthy(constructed.maxJitterMs) THEN constructed.maxJitterMs.v
    ELSE DEFAULT_MAX_JITTER_MS

\* this.clusterCount = clusterCount || DEFAULT_CLUSTER_COUNT
clusterCount ==
    IF truthy(constructed.clusterCount) THEN constructed.clusterCount.v
    ELSE DEFAULT_CLUSTER_COUNT

\* this.murmurSeed = murmurSeed || DEFAULT_MURMUR_SEED
murmurSeed ==
    IF truthy(constructed.murmurSeed) THEN constructed.murmurSeed.v
    ELSE DEFAULT_MURMUR_SEED

(***************************************************************************)
(* murmur.v3: MurmurHash3 (x86, 32 bits) of a string of ASCII characters.  *)
(* A 32-bit word is a pair << hi, lo >> of 16-bit halves.                  *)
(***************************************************************************)

Half == 65536

\* the bitwise exclusive or of two naturals
RECURSIVE xorNat(_, _)
xorNat(a, b) ==
    IF a = 0 THEN b
    ELSE IF b = 0 THEN a
    ELSE 2 * xorNat(a \div 2, b \div 2) + (((a % 2) + (b % 2)) % 2)

xor32(x, y) == << xorNat(x[1], y[1]), xorNat(x[2], y[2]) >>

\* (x + y) mod 2^32
add32(x, y) ==
    << (x[1] + y[1] + ((x[2] + y[2]) \div Half)) % Half, (x[2] + y[2]) % Half >>

\* a * b for 16-bit halves, as a 32-bit word
mulHalves(a, b) ==
    LET low == (a % 256) * b
        high == (a \div 256) * b
        sum == low + ((high % 256) * 256)
    IN  << ((high \div 256) + (sum \div Half)) % Half, sum % Half >>

\* (x * y) mod 2^32
mul32(x, y) ==
    add32(mulHalves(x[2], y[2]),
          << (mulHalves(x[1], y[2])[2] + mulHalves(x[2], y[1])[2]) % Half, 0 >>)

\* 2^k
RECURSIVE pow2(_)
pow2(k) == IF k = 0 THEN 1 ELSE 2 * pow2(k - 1)

\* (x << k) | (x >>> (32 - k)), for 0 < k < 16
rotl32(x, k) ==
    << ((x[1] * pow2(k)) % Half) + (x[2] \div pow2(16 - k)),
       ((x[2] * pow2(k)) % Half) + (x[1] \div pow2(16 - k)) >>

\* x >>> k, for 0 < k <= 16
shr32(x, k) ==
    << x[1] \div pow2(k), (x[2] \div pow2(k)) + ((x[1] % pow2(k)) * pow2(16 - k)) >>

murmurC1 == << 52382, 11601 >>      \* 0xcc9e2d51
murmurC2 == << 7047, 13715 >>       \* 0x1b873593
N5 == << 0, 5 >>
NE == << 58964, 27492 >>      \* 0xe6546b64
F1 == << 34283, 51819 >>      \* 0x85ebca6b
F2 == << 49842, 44597 >>      \* 0xc2b2ae35

\* charCodeAt of a decimal digit
charCode(c) == 48 + DigitVal(c)

\* the k1 of four, or of the last one to three, characters
blockOf(cs) ==
    << (IF Len(cs) > 2 THEN charCode(cs[3]) ELSE 0)
           + 256 * (IF Len(cs) > 3 THEN charCode(cs[4]) ELSE 0),
       charCode(cs[1]) + 256 * (IF Len(cs) > 1 THEN charCode(cs[2]) ELSE 0) >>

scramble(k1) == mul32(rotl32(mul32(k1, murmurC1), 15), murmurC2)

\* the body loop and the tail of the hash over the characters from i on
RECURSIVE mixFrom(_, _, _)
mixFrom(key, i, h1) ==
    IF i > Len(key) THEN h1
    ELSE IF i + 3 <= Len(key)
         THEN mixFrom(key, i + 4,
                      add32(mul32(rotl32(xor32(h1, scramble(blockOf(SubSeq(key, i, i + 3)))),
                                         13), N5), NE))
         ELSE xor32(h1, scramble(blockOf(SubSeq(key, i, Len(key)))))

\* the finalization mix
fmix(h) ==
    LET a == xor32(h, shr32(h, 16))
        b == mul32(a, F1)
        c == xor32(b, shr32(b, 13))
        d == mul32(c, F2)
    IN  xor32(d, shr32(d, 16))

\* murmur.v3(key, seed), for a seed below 2^16
murmur(key, seed) == fmix(xor32(mixFrom(key, 1, << 0, seed >>), << 0, Len(key) >>))

\* h % n of an unsigned 32-bit word
mod32(h, n) == (((h[1] % n) * (Half % n)) + (h[2] % n)) % n

(***************************************************************************)
(* The store facade (@google-cloud/bigtable), as the client uses it        *)
(***************************************************************************)

\* f with key k removed
Without(f, ks) == [x \in DOMAIN f \ ks |-> f[x]]

\* f overridden by g
Over(f, g) == [x \in DOMAIN f \cup DOMAIN g |-> IF x \in DOMAIN g THEN g[x] ELSE f[x]]

\* row(rowKey).exists() on the primary table
rowExists(t, rowKey) == \E c \in DOMAIN t : c[1] = rowKey

\* the cells of one row
rowCells(t, rowKey) == { c \in DOMAIN t : c[1] = rowKey }

\* Cell timestamps are microseconds since the epoch.
timestampOf(ms) == ms * MsPerSecond

\* row.increment / createRules: the cell read as an integer, absent as 0
cellInt(t, c) == IF c \in DOMAIN t THEN t[c].v ELSE 0

\* an increment fails on a cell that does not hold an integer
canIncrement(t, c) == IF c \in DOMAIN t THEN t[c].t = "num" ELSE TRUE

\* the live-row counter cell, if the counts row exists
hasCounter(m) == COUNTS \in DOMAIN m

counterOf(m) == IF hasCounter(m) THEN m[COUNTS][COUNTS].value.v ELSE 0

\* incrementCounts, were the store to write delta over the counter cell
incrementCountsOver(m, delta, ms) ==
    (COUNTS :> (COUNTS :> [value |-> Num(delta), timestamp |-> ms]))
    @@ m

\* tableMetadata.row(COUNTS).increment(`${cfNameMetadata}:${COUNTS}`, delta)
incrementCounts(m, delta, ms) ==
    Over(m, (COUNTS :> (COUNTS :> [value |-> Num(counterOf(m) + delta),
                                   timestamp |-> timestampOf(ms)])))

(***************************************************************************)
(* Calls in progress                                                       *)
(*                                                                         *)
(* A call is one invocation of an async method of the client.  Its store   *)
(* requests in flight are `pend`; the store serves them one at a time, in  *)
(* any order, each with success or failure.  `awaited` are the requests    *)
(* whose promises the method has pushed to insertPromises.                 *)
(***************************************************************************)

Req(k, col, ts) == [k |-> k, col |-> col, ts |-> ts]
P == Req("P", << >>, 0)       \* the primary mutation of the call
E == Req("E", << >>, 0)       \* row(rowKey).exists()
C == Req("C", << >>, 0)       \* the increment of the counts cell
M(col, ms) == Req("M", col, timestampOf(ms))   \* lib: the insert of a ttl marker
MM(ms) == Req("MM", << >>, timestampOf(ms))    \* part: the insert of the marker row

\* column ? column : this.defaultColumn
columnNameOf(column) == IF column # << >> THEN column ELSE DEFAULT_COLUMN

ColumnNames == { columnNameOf(c) : c \in ColumnArgs }
Cells == RowKeys \X ColumnNames

\* `${rowKey}#${this.cfName}:${columnName}`
ttlRowKey(rowKey, columnName) == rowKey \o << "#" >> \o cfName \o << ":" >> \o columnName

\* getTTLRowKey, were the key to carry the time of the write
getTTLRowKeyOfNow(ttl, ms) ==
    << "ttl", "#" >> \o natToString(mod32(murmur(natToString(ms), murmurSeed), clusterCount))
                    \o << "#" >> \o natToString(ms)

\* part: `ttl#${salt}#${deleteTimestamp}`, for Date.now() = ms
getTTLRowKey(ttl, ms) ==
    LET deleteTimestamp == ms + (1000 * ttl)
        salt == mod32(murmur(natToString(deleteTimestamp), murmurSeed), clusterCount)
    IN  << "ttl", "#" >> \o natToString(salt) \o << "#" >> \o natToString(deleteTimestamp)

\* part: `${this.cfName}#${rowKey}#${columnName}`
columnQualifier(rowKey, columnName) ==
    cfName \o << "#" >> \o rowKey \o << "#" >> \o columnName

CreatingOps == { "set", "multiSet", "increase", "decrease" }

\* Promise.all(insertPromises): rejected as soon as one awaited request has
\* failed, resolved once none of them is in flight any more.
PromiseAll(awaited, pend, bad) ==
    IF awaited \cap bad # {} THEN "rejected"
    ELSE IF awaited \cap pend = {} THEN "resolved"
    ELSE "all"

\* The requests a method dispatches before its first await, its position
\* there and the promises it holds.
libBegin(op, cols, value, ttl, ms) ==
    CASE op \in CreatingOps ->
            \* insert / row.increment is dispatched, then exists() is awaited
            [pc |-> "exists", pend |-> { P, E }, awaited |-> { P }]
      [] op = "multiAdd" ->
            LET rules == IF cols # {} /\ value.v # 0 THEN { P } ELSE {}
                marks == IF ttl # 0 THEN { M(c, ms) : c \in cols } ELSE {}
            IN  [pc |-> PromiseAll(rules \cup marks, rules \cup marks, {}),
                 pend |-> rules \cup marks, awaited |-> rules \cup marks]
      [] op = "delete" ->
            [pc |-> "cells", pend |-> { P }, awaited |-> {}]
      [] op = "deleteRow" ->
            [pc |-> "all", pend |-> { C, P }, awaited |-> { C, P }]
      [] op = "rowDelete" ->
            [pc |-> "all", pend |-> { P }, awaited |-> { P }]

\* The requests a creating method pushes once exists() has answered.
libAfterExists(c, exists, ms) ==
    (IF exists THEN {} ELSE { C })
    \cup (IF c.ttl # 0 THEN { M(col, ms) : col \in c.cols } ELSE {})

\* part: the same for the client that writes the marker row first
partBegin(op, cols, value, ttl, ms) ==
    LET marks == IF ttl # 0 THEN { MM(ms) } ELSE {}
    IN  CASE op \in CreatingOps ->
                \* the marker insert is dispatched, then exists() is awaited
                [pc |-> "exists", pend |-> marks \cup { E }, awaited |-> marks]
          [] op = "multiAdd" ->
                LET rules == IF value.v # 0 THEN { P } ELSE {}
                IN  IF cols = {}
                    THEN [pc |-> "resolved", pend |-> {}, awaited |-> {}]
                    ELSE [pc |-> PromiseAll(rules \cup marks, rules \cup marks, {}),
                          pend |-> rules \cup marks, awaited |-> rules \cup marks]
          [] op = "delete" ->
                [pc |-> "cells", pend |-> { P }, awaited |-> {}]
          [] op = "deleteRow" ->
                [pc |-> "all", pend |-> { C, P }, awaited |-> { C, P }]

partAfterExists(c, exists, ms) == (IF exists THEN {} ELSE { C }) \cup { P }

begin(im, op, cols, value, ttl, ms) ==
    IF im = "lib" THEN libBegin(op, cols, value, ttl, ms)
    ELSE partBegin(op, cols, value, ttl, ms)

afterExists(c, exists, ms) ==
    IF c.impl = "lib" THEN libAfterExists(c, exists, ms)
    ELSE partAfterExists(c, exists, ms)

\* history of a call: the clock, the row's existence and the counter when it
\* was made, and whether nothing else has run beside it since
NoHist == [t0 |-> 0, preExists |-> FALSE, preCount |-> 0, alone |-> FALSE]

\* the requests of a call that the store has applied
done(c) == (c.awaited \ c.pend) \ c.bad

NewCall(im, op, owner, rowKey, cols, value, ttl, h, hist) ==
    [impl |-> im, op |-> op, owner |-> owner, rowKey |-> rowKey, cols |-> cols,
     value |-> value, ttl |-> ttl,
     pc |-> h.pc, pend |-> h.pend, awaited |-> h.awaited, bad |-> {},
     hist |-> hist]

userName(n) == << "user", n, "", << >> >>
taskName(g, kind, key) == << "sweep", g, kind, key >>

IsUser(name) == name[1] = "user"
Settled(c) == c.pc \in { "resolved", "rejected" }

\* cells a foreground call writes or deletes
touched(op, rowKey, cols) ==
    IF op = "deleteRow" THEN { c \in Cells : c[1] = rowKey }
    ELSE { << rowKey, col >> : col \in cols } \cap Cells

NoRead == [op |-> "none", answer |-> "none", err |-> << >>, out |-> "none", val |-> Null]

NoWrite == [op |-> "none", ttl |-> 0, at |-> 0]

\* the sweep is between the firing of a timer and the end of its cycle
InFlight(l) == loops[l].pc \in { "scan", "deleting" }

(***************************************************************************)
(* What a served request does to the store                                 *)
(***************************************************************************)

Empty == [x \in {} |-> 0]

\* Delta, were every method to count a row more
DeltaOfCreation(op) == 1

Delta(op) == IF op \in { "delete", "deleteRow" } THEN -1 ELSE 1

\* insert(table, cfName, rowKey, data): every value sanitized, one mutation
insert(t, rowKey, cols, value) ==
    IF rowKey = << >> THEN t
    ELSE Over(t, [c \in { << rowKey, col >> : col \in cols } |-> sanitize(value)])

\* insert(tableMetadata, cfNameMetadata, ttlRowKey, {ttl})
insertMarker(m, key, ttl, ts) ==
    Over(m, (key :> Over(IF key \in DOMAIN m THEN m[key] ELSE Empty,
                         (TTL :> [value |-> sanitize(Num(ttl)), timestamp |-> ts]))))

\* part: insert(tableMetadata, cfNameMetadata, ttlRowKey, ttlData)
insertMarkers(m, key, rowKey, cols, ttl, ts) ==
    Over(m, (key :> Over(IF key \in DOMAIN m THEN m[key] ELSE Empty,
                         [q \in { columnQualifier(rowKey, col) : col \in cols } |->
                            [value |-> sanitize(Num(ttl)), timestamp |-> ts]])))

\* row.increment(column, by) / row.createRules(rules)
incrementCells(t, rowKey, cols, by) ==
    Over(t, [c \in { << rowKey, col >> : col \in cols } |-> Num(cellInt(t, c) + by)])

\* the increment the primary mutation of an adding method applies
addend(c) ==
    CASE c.op = "increase" -> 1
      [] c.op = "decrease" -> -1
      [] OTHER -> c.value.v

\* whether the store can apply the request at all
canSucceed(t, c, r) ==
    (r.k = "P" /\ c.op \in { "increase", "decrease", "multiAdd" })
        => \A col \in c.cols : canIncrement(t, << c.rowKey, col >>)

\* the primary table after request r of call c
tableAfter(t, c, r) ==
    IF r.k # "P" THEN t
    ELSE CASE c.op \in { "set", "multiSet" } -> insert(t, c.rowKey, c.cols, c.value)
           [] c.op \in { "increase", "decrease", "multiAdd" } ->
                  incrementCells(t, c.rowKey, c.cols, addend(c))
           [] c.op = "delete" ->
                  Without(t, { << c.rowKey, col >> : col \in c.cols })
           [] c.op = "deleteRow" -> Without(t, rowCells(t, c.rowKey))
           [] OTHER -> t

\* metaAfter, were the deletion of a marker row to leave the row in place
metaAfterKeepingMarkers(m, c, r, ms) ==
    CASE r.k = "M" -> insertMarker(m, ttlRowKey(c.rowKey, r.col), c.ttl, r.ts)
      [] r.k = "C" -> incrementCounts(m, Delta(c.op), ms)
      [] OTHER -> m

\* the metadata table after request r of call c, served at time ms
metaAfter(m, c, r, ms) ==
    CASE r.k = "M" -> insertMarker(m, ttlRowKey(c.rowKey, r.col), c.ttl, r.ts)
      [] r.k = "MM" -> insertMarkers(m, getTTLRowKey(c.ttl, r.ts \div MsPerSecond),
                                     c.rowKey, c.cols, c.ttl, r.ts)
      [] r.k = "C" -> incrementCounts(m, Delta(c.op), ms)
      [] r.k = "P" /\ c.op = "rowDelete" -> Without(m, { c.rowKey })
      [] OTHER -> m

\* The call after the answer to request r at time ms: ok or failed, and for
\* exists() what it answered.
step(c, r, ok, exists, ms) ==
    LET pend1 == c.pend \ { r }
        bad1 == IF ok THEN c.bad ELSE c.bad \cup { r }
        more == afterExists(c, exists, ms)
    IN  CASE Settled(c) ->
                [c EXCEPT !.pend = pend1, !.bad = bad1]
          [] c.op \in CreatingOps /\ c.pc = "exists" /\ r.k = "E" /\ ok ->
                [c EXCEPT !.pend = pend1 \cup more,
                          !.awaited = c.awaited \cup more,
                          !.pc = PromiseAll(c.awaited \cup more, pend1 \cup more, bad1)]
          [] c.op \in CreatingOps /\ c.pc = "exists" /\ r.k = "E" /\ ~ok ->
                [c EXCEPT !.pend = pend1, !.bad = bad1, !.pc = "rejected"]
          [] c.op \in CreatingOps /\ c.pc = "exists" /\ r.k # "E" ->
                [c EXCEPT !.pend = pend1, !.bad = bad1]
          [] c.op = "delete" /\ ~ok ->
                [c EXCEPT !.pend = pend1, !.bad = bad1, !.pc = "rejected"]
          [] c.op = "delete" /\ ok /\ c.pc = "cells" ->
                [c EXCEPT !.pend = { E }, !.pc = "exists"]
          [] c.op = "delete" /\ ok /\ c.pc = "exists" ->
                IF exists THEN [c EXCEPT !.pend = {}, !.pc = "resolved"]
                ELSE [c EXCEPT !.pend = { C }, !.pc = "count"]
          [] c.op = "delete" /\ ok /\ c.pc = "count" ->
                [c EXCEPT !.pend = {}, !.pc = "resolved"]
          [] OTHER ->
                [c EXCEPT !.pend = pend1, !.bad = bad1,
                          !.pc = PromiseAll(c.awaited, pend1, bad1)]

\* Every way a call can run to its end at time ms when the store fails no
\* request it can apply: the requests in flight are served in any order.
RECURSIVE runCall(_, _, _, _)
runCall(t, m, c, ms) ==
    IF c.pend = {} THEN { [table |-> t, meta |-> m, call |-> c] }
    ELSE UNION { IF canSucceed(t, c, r)
                 THEN runCall(tableAfter(t, c, r), metaAfter(m, c, r, ms),
                              step(c, r, TRUE, rowExists(t, c.rowKey), ms), ms)
                 ELSE runCall(t, m, step(c, r, FALSE, FALSE, ms), ms)
                 : r \in c.pend }

(***************************************************************************)
(* The sweep job: runJob / deleteExpiredData                               *)
(***************************************************************************)

\* etl: the ttl cell of a scanned row, or nothing when the row has none
etl(m, key) ==
    IF TTL \in DOMAIN m[key]
    THEN { [rowKey |-> key, value |-> m[key][TTL].value,
            timestamp |-> m[key][TTL].timestamp] }
    ELSE {}

\* (metaCell.timestamp / 1000) < (Date.now() - (metaCell.value * 1000))
expired(metaCell, ms) ==
    (metaCell.timestamp \div MsPerSecond) < (ms - (metaCell.value.v * MsPerSecond))

\* the row keys deleteExpiredData keeps after its two filters
filteredRowKeys(m, ms) ==
    { x.rowKey : x \in { y \in UNION { etl(m, key) : key \in DOMAIN m } : expired(y, ms) } }

\* history of a loop: how its last cycle ended, whether no foreground call
\* ran since that cycle ended well, when it last scanned, whether its last
\* scan followed such a quiet period, the markers of that scan which the scan
\* before had already seen expired, and how many markers the last two scans
\* found expired
NoCycle ==
    [prev |-> "none", idle |-> FALSE, scanAt |-> 0, again |-> FALSE, stale |-> {},
     did |-> 0, was |-> 0]

\* runJob(): this.tov = setTimeout(..., this.intervalInMs)
runJob(l, h) ==
    (l :> [pc |-> "armed", deadline |-> now + intervalInMs, tasks |-> {}, due |-> {},
           h |-> h])

\* the history of a loop whose cycle ends with the given outcome
ended(l, outcome) ==
    [loops[l].h EXCEPT !.prev = outcome, !.idle = (outcome = "resolved")]

\* the history of a loop whose scan finds the given marker rows expired
scanned(l, keys) ==
    [loops[l].h EXCEPT
        !.scanAt = now,
        !.again = loops[l].h.idle,
        !.stale = IF loops[l].h.idle
                  THEN { key \in keys : \E x \in etl(meta, key) : expired(x, loops[l].h.scanAt) }
                  ELSE {},
        !.was = loops[l].h.did,
        !.did = Cardinality(keys)]

\* {key: rowKey.split("#")[0], column: rowKey.split(":")[1]}
ownerOf(rowKey) ==
    [key |-> jsIndex(split(rowKey, "#"), 0), column |-> jsIndex(split(rowKey, ":"), 1)]

\* column || this.defaultColumn || ""
columnOrDefault(column) == IF column # << >> THEN column ELSE DEFAULT_COLUMN

\* this.delete(cell.key, cell.column) as a call: nothing to do without a key
deleteCall(l, rowKey, column) ==
    NewCall("lib", "delete", l, rowKey, { columnOrDefault(column) }, Null, 0,
            IF rowKey = << >>
            THEN [pc |-> "resolved", pend |-> {}, awaited |-> {}]
            ELSE begin("lib", "delete", {}, Null, 0, 0),
            NoHist)

\* this.tableMetadata.row(rowKey).delete() as a call
rowDeleteCall(l, rowKey) ==
    NewCall("lib", "rowDelete", l, rowKey, {}, Null, 0, begin("lib", "rowDelete", {}, Null, 0, 0),
            NoHist)

\* a generation number no sweep call in progress carries
freshGen ==
    CHOOSE g \in 1..(Cardinality(DOMAIN calls) + 1) :
        /\ \A n \in DOMAIN calls : ~IsUser(n) => n[2] # g
        /\ \A h \in 1..(g - 1) : \E n \in DOMAIN calls : ~IsUser(n) /\ n[2] = h

\* the calls one cycle dispatches for the expired row keys
tasksOf(l, keys) ==
    [n \in { taskName(freshGen, kind, key) : kind \in { "delete", "meta" }, key \in keys } |->
        IF n[3] = "delete"
        THEN deleteCall(l, ownerOf(n[4]).key, ownerOf(n[4]).column)
        ELSE rowDeleteCall(l, n[4])]

\* history: the cells whose last write was a set with a TTL that the clock
\* has passed
dueAt(ms) ==
    { c \in Cells : /\ wr[c].op = "set" /\ wr[c].ttl > 0
                    /\ wr[c].at + wr[c].ttl * MsPerSecond < ms }

notAlone(cs) == [n \in DOMAIN cs |-> [cs[n] EXCEPT !.hist.alone = FALSE]]

\* a call that has settled and has nothing in flight
IsOver(c) == Settled(c) /\ c.pend = {}

\* the calls without those that are over and that no loop awaits
prune(cs, ls) ==
    Without(cs, { n \in DOMAIN cs :
                    /\ IsOver(cs[n])
                    /\ \A l \in DOMAIN ls : n \notin ls[l].tasks })

(***************************************************************************)
(* Actions                                                                 *)
(***************************************************************************)

\* part: parseInt((Math.random() * (max - min)).toFixed(0), 10), for
\* Math.random() in [0, 1): the values of JitterDeltas it can give, and the
\* one farthest from 0
deltaJitters(min, max) ==
    { d \in JitterDeltas \cup { max - min } :
        IF max >= min THEN d \in 0..(max - min) ELSE d \in (max - min)..0 }

\* startJob, were the timer to wait for the random part of the jitter only
startJobAfterDelta(l, deltaJitterMs) ==
    (l :> [pc |-> "jitter", deadline |-> now + deltaJitterMs,
           tasks |-> {}, due |-> {}, h |-> NoCycle])

\* part: this.tov = setTimeout(() => this.job.run(), startJitterMs)
startJob(l, deltaJitterMs) ==
    (l :> [pc |-> "jitter", deadline |-> now + minJitterMs + deltaJitterMs,
           tasks |-> {}, due |-> {}, h |-> NoCycle])

\* part: this.job.run() in the turn of init(), without a timer
runNow(l) ==
    (l :> [pc |-> "job", deadline |-> now, tasks |-> {}, due |-> {}, h |-> NoCycle])

\* history of close(): nothing has been closed
NotClosed == [called |-> FALSE, inflight |-> {}, idle |-> {}, n |-> 0]

Init ==
    /\ constructed = NotGiven
    /\ impl = "lib"
    /\ table = Empty
    /\ meta = Empty
    /\ now = 0
    /\ isInitialized = FALSE
    /\ tov = 0
    /\ loops = Empty
    /\ calls = Empty
    /\ nops = 0
    /\ nfail = 0
    /\ closed = NotClosed
    /\ wr = [c \in Cells |-> NoWrite]
    /\ swept = {}
    /\ ret = NoRead

\* the end of init(): this.runJob() of the lib client; the part client
\* starts its job after a random jitter
startsJob ==
    IF impl = "lib"
    THEN /\ loops' = Over(loops, runJob(Cardinality(DOMAIN loops) + 1, NoCycle))
         /\ tov' = Cardinality(DOMAIN loops) + 1
    ELSE IF minJitterMs # 0 /\ maxJitterMs # 0
    THEN /\ \E deltaJitterMs \in deltaJitters(minJitterMs, maxJitterMs) :
                 loops' = Over(loops, startJob(Cardinality(DOMAIN loops) + 1,
                                               deltaJitterMs))
         /\ tov' = Cardinality(DOMAIN loops) + 1
    ELSE /\ loops' = Over(loops, runNow(Cardinality(DOMAIN loops) + 1))
         /\ tov' = tov

\* init() called once: the tables and families are made, then the sweep
\* loop is started
init ==
    /\ ~isInitialized
    /\ isInitialized' = TRUE
    /\ startsJob
    /\ UNCHANGED << constructed, impl, table, meta, now, calls, nops, nfail, closed, wr, swept, ret >>

\* the clock advances by one second
Tick ==
    /\ now < MaxTicks * MsPerSecond
    /\ now' = now + MsPerSecond
    /\ UNCHANGED << constructed, impl, table, meta, isInitialized, tov, loops, calls, nops, nfail,
                    closed, wr, swept, ret >>

\* history of the cells a foreground call touches at time ms
wrote(w, op, rowKey, cols, ttl, ms) ==
    [c \in Cells |->
        IF c \in touched(op, rowKey, cols)
        THEN [op |-> op, ttl |-> ttl, at |-> ms]
        ELSE w[c]]

\* A foreground method is called and runs to its end; the store serves its
\* requests in any order and fails none.
Call(op, rowKey, cols, value, ttl) ==
    /\ isInitialized
    /\ nops < MaxOps
    /\ \E o \in runCall(table, meta,
                        NewCall(impl, op, 0, rowKey, cols, value, ttl,
                                begin(impl, op, cols, value, ttl, now), NoHist),
                        now) :
            /\ table' = o.table
            /\ meta' = o.meta
    /\ nops' = nops + 1
    /\ wr' = wrote(wr, op, rowKey, cols, ttl, now)
    /\ swept' = swept \ touched(op, rowKey, cols)
    /\ loops' = [l \in DOMAIN loops |->
                    [loops[l] EXCEPT !.due = @ \ touched(op, rowKey, cols),
                                     !.h.idle = FALSE]]
    /\ UNCHANGED << constructed, impl, now, isInitialized, tov, calls, nfail, closed, ret >>

set ==
    \E rowKey \in RowKeys, value \in Values, ttl \in TTLs, column \in ColumnArgs :
        Call("set", rowKey, { columnNameOf(column) }, value, ttl)

delete ==
    \E rowKey \in RowKeys, column \in ColumnArgs :
        Call("delete", rowKey, { columnOrDefault(column) }, Null, 0)

deleteRow ==
    \E rowKey \in RowKeys : Call("deleteRow", rowKey, {}, Null, 0)

\* the bookkeeping of an answered request of call n, which becomes c1
answered(n, c1, ok) ==
    /\ calls' = IF IsUser(n) THEN Over(calls, (n :> c1))
                ELSE prune(Over(calls, (n :> c1)), loops)
    /\ loops' = [l \in DOMAIN loops |->
                    IF ~ok /\ n \in loops[l].tasks
                    THEN [loops[l] EXCEPT !.due = {}]
                    ELSE loops[l]]

\* The store applies one request in flight and answers it.
Serve ==
    \E n \in DOMAIN calls : \E r \in calls[n].pend :
        /\ canSucceed(table, calls[n], r)
        /\ table' = tableAfter(table, calls[n], r)
        /\ meta' = metaAfter(meta, calls[n], r, now)
        /\ answered(n, step(calls[n], r, TRUE, rowExists(table, calls[n].rowKey), now),
                    TRUE)
        /\ UNCHANGED << constructed, impl, now, isInitialized, tov, nops, nfail, closed, wr, swept, ret >>

\* fails, were the client to undo the primary write of a call that fails
failsAndRollsBack(n) ==
    \E r \in calls[n].pend :
        /\ nfail < MaxFail
        /\ nfail' = nfail + 1
        /\ table' = Without(table, { << calls[n].rowKey, col >> : col \in calls[n].cols })
        /\ answered(n, step(calls[n], r, FALSE, FALSE, now), FALSE)
        /\ UNCHANGED << constructed, impl, meta, now, isInitialized, tov, nops, closed, wr, swept, ret >>

\* The store fails one request in flight of call n.
fails(n) ==
    \E r \in calls[n].pend :
        /\ nfail < MaxFail \/ ~canSucceed(table, calls[n], r)
        /\ nfail' = IF canSucceed(table, calls[n], r) THEN nfail + 1 ELSE nfail
        /\ answered(n, step(calls[n], r, FALSE, FALSE, now), FALSE)
        /\ UNCHANGED << constructed, impl, table, meta, now, isInitialized, tov, nops, closed, wr,
                        swept, ret >>

\* a request of a deletion of the sweep fails
deletionFails == \E n \in DOMAIN calls : ~IsUser(n) /\ fails(n)

\* The timer of a loop fires: deleteExpiredData starts its scan.
timerFires ==
    \E l \in DOMAIN loops :
        /\ loops[l].pc = "armed"
        /\ now >= loops[l].deadline
        /\ loops' = [loops EXCEPT ![l].pc = "scan"]
        /\ calls' = notAlone(calls)
        /\ UNCHANGED << constructed, impl, table, meta, now, isInitialized, tov, nops, nfail, closed,
                        wr, swept, ret >>

\* part: the jitter timer fires and this.job.run() starts the job
jitterFires ==
    \E l \in DOMAIN loops :
        /\ loops[l].pc = "jitter"
        /\ now >= loops[l].deadline
        /\ loops' = [loops EXCEPT ![l].pc = "job"]
        /\ UNCHANGED << constructed, impl, table, meta, now, isInitialized, tov, calls, nops,
                        nfail, closed, wr, swept, ret >>

\* The scan stream ends: the expired markers are filtered and every deletion
\* is dispatched; without any, the cycle is over and the loop re-arms.
scanEnd ==
    \E l \in DOMAIN loops :
        LET keys == filteredRowKeys(meta, now)
            tasks == tasksOf(l, keys)
        IN  /\ loops[l].pc = "scan"
            /\ IF keys = {}
               THEN /\ loops' = Over(loops, runJob(l, [scanned(l, keys) EXCEPT
                                                            !.prev = "resolved",
                                                            !.idle = TRUE]))
                    /\ tov' = l
                    /\ swept' = swept \cup dueAt(now)
                    /\ calls' = calls
               ELSE /\ loops' = [loops EXCEPT ![l].pc = "deleting",
                                              ![l].tasks = DOMAIN tasks,
                                              ![l].due = dueAt(now),
                                              ![l].h = scanned(l, keys)]
                    /\ calls' = Over(calls, tasks)
                    /\ UNCHANGED << constructed, impl, tov, swept >>
            /\ UNCHANGED << constructed, impl, table, meta, now, isInitialized, nops, nfail, closed,
                            wr, ret >>

\* The scan stream reports an error: the cycle is over and the loop re-arms.
scanError ==
    \E l \in DOMAIN loops :
        /\ loops[l].pc = "scan"
        /\ nfail < MaxFail
        /\ nfail' = nfail + 1
        /\ loops' = Over(loops, runJob(l, ended(l, "rejected")))
        /\ tov' = l
        /\ UNCHANGED << constructed, impl, table, meta, now, isInitialized, calls, nops, closed, wr,
                        swept, ret >>

\* the Promise.all of one cycle's deletions
cycleOutcome(l) ==
    IF \E n \in loops[l].tasks : calls[n].pc = "rejected" THEN "rejected"
    ELSE IF \A n \in loops[l].tasks : calls[n].pc = "resolved" THEN "resolved"
    ELSE "all"

\* cycleEnd, were runJob to be called again by then only and not by catch
cycleEndWithoutCatch ==
    \E l \in DOMAIN loops :
        /\ loops[l].pc = "deleting"
        /\ cycleOutcome(l) # "all"
        /\ swept' = IF cycleOutcome(l) = "resolved" THEN swept \cup loops[l].due ELSE swept
        /\ loops' = IF cycleOutcome(l) = "resolved"
                    THEN Over(loops, runJob(l, ended(l, "resolved")))
                    ELSE [loops EXCEPT ![l].pc = "stopped", ![l].tasks = {},
                                       ![l].h = ended(l, "rejected")]
        /\ calls' = prune(calls, loops')
        /\ tov' = IF cycleOutcome(l) = "resolved" THEN l ELSE tov
        /\ UNCHANGED << constructed, impl, table, meta, now, isInitialized, nops, nfail, closed, wr, ret >>

\* The deletions of a cycle have settled: then / catch call runJob again.
cycleEnd ==
    \E l \in DOMAIN loops :
        /\ loops[l].pc = "deleting"
        /\ cycleOutcome(l) # "all"
        /\ swept' = IF cycleOutcome(l) = "resolved" THEN swept \cup loops[l].due ELSE swept
        /\ loops' = Over(loops, runJob(l, ended(l, cycleOutcome(l))))
        /\ calls' = prune(calls, Over(loops, runJob(l, ended(l, cycleOutcome(l)))))
        /\ tov' = l
        /\ UNCHANGED << constructed, impl, table, meta, now, isInitialized, nops, nfail, closed, wr, ret >>

\* the timer of loop l is pending: it is set and has not fired
Pending(l) == loops[l].pc \in { "armed", "jitter" }

\* clearTimeout, were it to leave the timer running
clearTimeoutInVain(ls, handle) == ls

\* clearTimeout(this.tov): a timer that has not fired yet never fires
clearTimeout(ls, handle) ==
    IF handle # 0 /\ ls[handle].pc \in { "armed", "jitter" }
    THEN [ls EXCEPT ![handle].pc = "cleared"]
    ELSE ls

\* close(): if (this.tov) clearTimeout(this.tov)
close ==
    /\ closed.n < MaxClose
    /\ closed' = [called |-> TRUE,
                  inflight |-> closed.inflight \cup { l \in DOMAIN loops : InFlight(l) },
                  idle |-> closed.idle \cup { l \in DOMAIN loops : l = tov /\ Pending(l) },
                  n |-> closed.n + 1]
    /\ loops' = clearTimeout(loops, tov)
    /\ UNCHANGED << constructed, impl, table, meta, now, isInitialized, tov, calls, nops, nfail, wr,
                    swept, ret >>

(***************************************************************************)
(* Spec: the lib client with its sweep job.  Foreground calls run to their *)
(* end one after the other and the store fails nothing.                    *)
(***************************************************************************)

Next ==
    \/ init
    \/ Tick
    \/ set
    \/ delete
    \/ deleteRow
    \/ Serve
    \/ timerFires
    \/ scanEnd
    \/ cycleEnd

Spec == Init /\ [][Next]_vars

(***************************************************************************)
(* SpecJob: the life of the sweep job of either client on a store that     *)
(* earlier set calls have filled, where the store may fail the scan or a   *)
(* deletion and the client may be closed.                                  *)
(***************************************************************************)

\* the store before any call
Blank == [table |-> Empty, meta |-> Empty, wr |-> [c \in Cells |-> NoWrite], nops |-> 0]

\* the arguments of a set call
SetArgs == [rowKey : RowKeys, value : Values, ttl : TTLs, column : ColumnArgs]

\* the stores a set call with arguments a at time 0 can make of store b
afterSet(im, b, a) ==
    { [table |-> o.table, meta |-> o.meta,
       wr |-> wrote(b.wr, "set", a.rowKey, { columnNameOf(a.column) }, a.ttl, 0),
       nops |-> b.nops + 1] :
      o \in runCall(b.table, b.meta,
                    NewCall(im, "set", 0, a.rowKey, { columnNameOf(a.column) }, a.value, a.ttl,
                            begin(im, "set", { columnNameOf(a.column) }, a.value, a.ttl, 0),
                            NoHist),
                    0) }

\* the stores that up to k set calls at time 0 leave behind
RECURSIVE written(_, _)
written(im, k) ==
    IF k = 0 THEN { Blank }
    ELSE LET before == written(im, k - 1)
         IN  before \cup UNION { afterSet(im, b, a) : b \in before, a \in SetArgs }

InitJob ==
    /\ constructed = NotGiven
    /\ impl \in { "lib", "part" }
    /\ \E b \in written(impl, MaxOps) :
        /\ table = b.table
        /\ meta = b.meta
        /\ wr = b.wr
        /\ nops = b.nops
    /\ now = 0
    /\ isInitialized = FALSE
    /\ tov = 0
    /\ loops = Empty
    /\ calls = Empty
    /\ nfail = 0
    /\ closed = NotClosed
    /\ swept = {}
    /\ ret = NoRead

NextJob ==
    \/ init
    \/ Tick
    \/ Serve
    \/ deletionFails
    \/ timerFires
    \/ jitterFires
    \/ scanEnd
    \/ scanError
    \/ cycleEnd
    \/ close

SpecJob == InitJob /\ [][NextJob]_vars

(***************************************************************************)
(* SpecCall: foreground calls of either client, request by request; calls  *)
(* may overlap and the store may fail a request.  The clock stands still   *)
(* and the sweep timer, armed by init(), does not fire.                    *)
(***************************************************************************)

\* the client of either kind after init() on an empty store
InitCall ==
    /\ constructed = NotGiven
    /\ impl \in { "lib", "part" }
    /\ table = Empty
    /\ meta = Empty
    /\ now = 0
    /\ isInitialized = TRUE
    /\ tov = 1
    /\ IF impl = "lib"
       THEN loops = runJob(1, NoCycle)
       ELSE loops = startJob(1, 0)
    /\ calls = Empty
    /\ nops = 0
    /\ nfail = 0
    /\ closed = NotClosed
    /\ wr = [c \in Cells |-> NoWrite]
    /\ swept = {}
    /\ ret = NoRead

\* A foreground method is called: it dispatches its first requests.  Calls
\* that are over are forgotten.
Called(op, rowKey, cols, value, ttl) ==
    LET others == prune(calls, loops) IN
    /\ isInitialized
    /\ nops < MaxOps
    /\ nops' = nops + 1
    /\ calls' = Over(notAlone(others),
                     (userName(nops + 1) :>
                        NewCall(impl, op, 0, rowKey, cols, value, ttl,
                                begin(impl, op, cols, value, ttl, now),
                                [t0 |-> now,
                                 preExists |-> rowExists(table, rowKey),
                                 preCount |-> counterOf(meta),
                                 alone |-> others = Empty])))
    /\ wr' = wrote(wr, op, rowKey, cols, ttl, now)
    /\ UNCHANGED << constructed, impl, table, meta, now, isInitialized, tov, loops, nfail, closed,
                    swept, ret >>

\* In SpecCall the clock stands still and nothing tells one row key from
\* another: calls contend for one row key, with or without a TTL.
CallRowKeys == { << "u" >> }
CallTTLs == { 0, 1 }

setCalled ==
    \E rowKey \in CallRowKeys, value \in Values, ttl \in CallTTLs, column \in ColumnArgs :
        Called("set", rowKey, { columnNameOf(column) }, value, ttl)

multiSetCalled ==
    \E rowKey \in CallRowKeys, value \in Values, ttl \in CallTTLs,
       keys \in SUBSET ColumnNames :
        /\ keys # {}
        /\ Called("multiSet", rowKey, keys, value, ttl)

increaseCalled ==
    \E rowKey \in CallRowKeys, ttl \in CallTTLs, column \in ColumnArgs :
        Called("increase", rowKey, { columnOrDefault(column) }, Null, ttl)

decreaseCalled ==
    \E rowKey \in CallRowKeys, ttl \in CallTTLs, column \in ColumnArgs :
        Called("decrease", rowKey, { columnOrDefault(column) }, Null, ttl)

\* a request of a foreground call fails
requestFails == \E n \in DOMAIN calls : IsUser(n) /\ fails(n)

NextCall ==
    \/ setCalled
    \/ multiSetCalled
    \/ increaseCalled
    \/ decreaseCalled
    \/ Serve
    \/ requestFails

SpecCall == InitCall /\ [][NextCall]_vars

(***************************************************************************)
(* SpecCodec: set calls of either client with values of every JSON kind,   *)
(* request by request, to follow a value through insert into its cell.     *)
(***************************************************************************)

\* JSON-representable values: null, booleans, numbers, strings (plain, and
\* with a text that is JSON), arrays and objects
CodecValues ==
    { Null, Bool(TRUE), Bool(FALSE), Num(0), Num(7), Num(-3),
      Str(<< "alice" >>), Str(<< "1", "2", "3" >>), Str(<< "t", "r", "u", "e" >>),
      Str(<< "{", "a" >>), Str(<< "[", "1", ",", "]" >>), Str(<< "n", "u", "l", "l" >>),
      Arr(<< >>), Arr(<< Num(1), Str(<< "a" >>), Null >>),
      Obj(<< >>), Obj(<< << << "k" >>, Num(0) >>, << << "l" >>, Arr(<< Bool(FALSE) >>) >> >>) }

\* set(rowKey, value) of a value of any JSON kind, without a TTL
setJSON ==
    \E rowKey \in CallRowKeys, value \in CodecValues :
        Called("set", rowKey, { DEFAULT_COLUMN }, value, 0)


(***************************************************************************)
(* SpecRead: the read paths of either client on a store that earlier set   *)
(* calls have filled; the store may answer a read with an error.           *)
(***************************************************************************)

\* the error row.get throws for a row, or a column filter, without any cell
UnknownRow(rowKey) == << "Unknown row", ": " >> \o rowKey

\* the other errors of the store
StoreErrors == { << "14 UNAVAILABLE", ": ", "read failed" >>, << "4 DEADLINE_EXCEEDED" >> }

\* error.message.startsWith(prefix)
startsWith(message, prefix) ==
    /\ Len(message) >= Len(prefix)
    /\ SubSeq(message, 1, Len(prefix)) = prefix

\* the cells of a row of the primary table by column
rowData(t, rowKey) ==
    [col \in { c[2] : c \in rowCells(t, rowKey) } |-> t[<< rowKey, col >>]]

\* the cells of a row of the metadata table by column
metaData(m, rowKey) ==
    IF rowKey \in DOMAIN m
    THEN [col \in DOMAIN m[rowKey] |-> m[rowKey][col].value]
    ELSE Empty

resolved(val) == [out |-> "resolved", val |-> val]
rejected(error) == [out |-> "rejected", val |-> [t |-> "error", v |-> error]]

\* what row.get(identifier ? [identifier] : undefined) throws, << >> if
\* nothing: the error the store fails with, or Unknown row without a cell
thrownByGet(data, rowKey, column, err) ==
    IF err # << >> THEN err
    ELSE IF (IF column # << >> THEN { column } \cap DOMAIN data ELSE DOMAIN data) = {}
         THEN UnknownRow(rowKey)
         ELSE << >>

\* retrieve, were it to throw whatever row.get throws
retrieveRethrowing(data, rowKey, column, err) ==
    LET error == thrownByGet(data, rowKey, column, err)
    IN  IF rowKey = << >> THEN resolved(Undefined)
        ELSE IF error # << >> THEN rejected(error)
        ELSE IF column # << >>
             THEN resolved(data[column])
             ELSE resolved([t |-> "row",
                            v |-> [col \in { k \in DOMAIN data : truthy(data[k]) } |->
                                       getParsedValue(data[col])]])

\* retrieve(table, cfName, rowKey, column) on the row's cells `data`, where
\* the store fails with err, or with nothing when err is << >>
retrieve(data, rowKey, column, err) ==
    LET error == thrownByGet(data, rowKey, column, err)
    IN  IF rowKey = << >> THEN resolved(Undefined)
        ELSE IF error # << >>
             THEN IF ~startsWith(error, << "Unknown row" >>)
                  THEN rejected(error)
                  ELSE resolved(Null)
             ELSE IF column # << >>
                  THEN resolved(data[column])
                  ELSE resolved([t |-> "row",
                                 v |-> [col \in { k \in DOMAIN data : truthy(data[k]) } |->
                                            getParsedValue(data[col])]])

\* count(): counts || 0
countOf(m, err) ==
    LET counts == retrieve(metaData(m, COUNTS), COUNTS, COUNTS, err)
    IN  IF counts.out = "resolved" /\ ~truthy(counts.val) THEN resolved(Num(0)) ELSE counts

\* history: what the store answered to a read
answerOf(data, rowKey, column, err) ==
    IF err # << >> THEN "error"
    ELSE IF thrownByGet(data, rowKey, column, err) # << >> THEN "unknown"
    ELSE "data"

\* the client of either kind after init(), on a store its set calls filled
InitRead ==
    /\ constructed = NotGiven
    /\ impl \in { "lib", "part" }
    /\ \E b \in written(impl, MaxOps) :
        /\ table = b.table
        /\ meta = b.meta
        /\ wr = b.wr
        /\ nops = b.nops
    /\ now = 0
    /\ isInitialized = TRUE
    /\ tov = 1
    /\ IF impl = "lib"
       THEN loops = runJob(1, NoCycle)
       ELSE loops = startJob(1, 0)
    /\ calls = Empty
    /\ nfail = 0
    /\ closed = NotClosed
    /\ swept = {}
    /\ ret = NoRead

\* a read call has settled
Read(op, answer, err, outcome) ==
    /\ isInitialized
    /\ ret' = [op |-> op, answer |-> answer, err |-> err,
               out |-> outcome.out, val |-> outcome.val]
    /\ UNCHANGED << constructed, impl, table, meta, now, isInitialized, tov, loops, calls, nops,
                    nfail, closed, wr, swept >>

\* get(rowKey, column)
get ==
    \E rowKey \in RowKeys, column \in ColumnArgs, err \in StoreErrors \cup { << >> } :
        Read("get",
             answerOf(rowData(table, rowKey), rowKey, columnOrDefault(column), err), err,
             retrieve(rowData(table, rowKey), rowKey, columnOrDefault(column), err))

\* getRow(rowKey)
getRow ==
    \E rowKey \in RowKeys, err \in StoreErrors \cup { << >> } :
        Read("getRow",
             answerOf(rowData(table, rowKey), rowKey, << >>, err), err,
             retrieve(rowData(table, rowKey), rowKey, << >>, err))

\* count()
count ==
    \E err \in StoreErrors \cup { << >> } :
        Read("count", answerOf(metaData(meta, COUNTS), COUNTS, COUNTS, err), err,
             countOf(meta, err))

\* get(rowKey) of the cell that setJSON writes, answered by the store
getJSON ==
    \E rowKey \in CallRowKeys :
        Read("get",
             answerOf(rowData(table, rowKey), rowKey, columnOrDefault(<< >>), << >>), << >>,
             retrieve(rowData(table, rowKey), rowKey, columnOrDefault(<< >>), << >>))

NextCodec ==
    \/ setJSON
    \/ Serve
    \/ getJSON

SpecCodec == InitCall /\ [][NextCodec]_vars

NextRead ==
    \/ get
    \/ getRow
    \/ count

SpecRead == InitRead /\ [][NextRead]_vars

(***************************************************************************)
(* Properties of the sweep: Spec                                           *)
(***************************************************************************)

\* C1 Eventual expiry: a cell whose last write is a set with a TTL, and over
\* which a sweep cycle has run to completion without a failure after the
\* clock passed the expiry time, is no longer in the primary table (get
\* returns null), whatever the row key and the column name.
EventualExpiry == \A c \in swept : c \notin DOMAIN table

\* C2 No premature expiry: a cell whose most recent write is a set at t0 with
\* ttl T > 0 is still in the primary table as long as the clock is before
\* t0 + T * 1000 ms, whatever was written earlier and whatever the sweep did.
NoPrematureExpiry ==
    \A c \in Cells :
        (/\ wr[c].op = "set"
         /\ wr[c].ttl > 0
         /\ now < wr[c].at + wr[c].ttl * MsPerSecond) => c \in DOMAIN table

target(c) == << c.rowKey, CHOOSE col \in c.cols : TRUE >>

\* C6 Stale markers are no-ops: a deletion the sweep runs for a marker whose
\* cell a direct delete or deleteRow has already removed alters no primary
\* cell and leaves the live-row counter at its value.
StaleMarkerNoOp ==
    [][\A n \in DOMAIN calls \cap DOMAIN calls' :
        (/\ ~IsUser(n)
         /\ calls[n].op = "delete"
         /\ calls[n].rowKey # << >>
         /\ target(calls[n]) \in Cells
         /\ wr[target(calls[n])].op \in { "delete", "deleteRow" }
         /\ calls'[n] # calls[n])
            => /\ counterOf(meta') = counterOf(meta)
               /\ table' = table]_vars

(***************************************************************************)
(* Properties of the life of the job: SpecJob                              *)
(***************************************************************************)

\* C4 close() during a cycle: a loop that was in flight when close() was
\* called finishes its cycle and has no timer pending afterwards.
CloseLetsCycleFinish == \A l \in closed.inflight : loops[l].pc # "armed"

\* C9 Sweep resilience: on a client that has not been closed, the end of
\* every cycle, be it by success, by an error of the scan or by a failed
\* deletion, arms exactly one timer for the next cycle of the same loop.
SweepResilience ==
    [][\A l \in DOMAIN loops :
        (InFlight(l) /\ loops'[l].pc \notin { "scan", "deleting" } /\ ~closed'.called)
            => /\ loops'[l].pc = "armed"
               /\ loops'[l].deadline = now + intervalInMs
               /\ tov' = l
               /\ DOMAIN loops' = DOMAIN loops]_vars

\* C9 witness: on a client that has not been closed a cycle has failed and
\* the loop is armed again
ArmedAfterFailure ==
    \E l \in DOMAIN loops :
        /\ ~closed.called
        /\ loops[l].pc = "armed"
        /\ loops[l].h.prev = "rejected"

(***************************************************************************)
(* Properties of the foreground calls: SpecCall                            *)
(***************************************************************************)

\* a call of a creating method that ran alone and has resolved
ResolvedAlone(n) ==
    /\ IsUser(n)
    /\ calls[n].op \in CreatingOps
    /\ calls[n].hist.alone
    /\ calls[n].pc = "resolved"
    /\ calls[n].pend = {}
    /\ calls[n].bad = {}

\* C3 Counter on creation: when set, multiSet, increase or decrease has run
\* alone and every store call succeeded, the counter, and so count(), is one
\* above its value before the call if the row did not exist then, and at that
\* value if it did.
CounterOnNewRow ==
    \A n \in DOMAIN calls :
        ResolvedAlone(n) =>
            /\ counterOf(meta) = calls[n].hist.preCount
                                    + (IF calls[n].hist.preExists THEN 0 ELSE 1)
            /\ countOf(meta, << >>) = resolved(Num(counterOf(meta)))

\* the primary write of call c is in the primary table
primaryCommitted(c) ==
    \A col \in c.cols :
        /\ << c.rowKey, col >> \in DOMAIN table
        /\ c.op \in { "set", "multiSet" } => table[<< c.rowKey, col >>] = sanitize(c.value)
        /\ c.op \in { "increase", "decrease" } => table[<< c.rowKey, col >>].t = "num"

\* the marker that request r of call c wrote is in the metadata table
markerCommitted(c, r) ==
    IF r.k = "M"
    THEN /\ ttlRowKey(c.rowKey, r.col) \in DOMAIN meta
         /\ TTL \in DOMAIN meta[ttlRowKey(c.rowKey, r.col)]
         /\ meta[ttlRowKey(c.rowKey, r.col)][TTL].value = Num(c.ttl)
    ELSE /\ getTTLRowKey(c.ttl, r.ts \div MsPerSecond) \in DOMAIN meta
         /\ \A col \in c.cols :
              /\ columnQualifier(c.rowKey, col)
                    \in DOMAIN meta[getTTLRowKey(c.ttl, r.ts \div MsPerSecond)]
              /\ meta[getTTLRowKey(c.ttl, r.ts \div MsPerSecond)]
                     [columnQualifier(c.rowKey, col)].value = Num(c.ttl)

\* C8 Partial multi-write failure: a call of set, multiSet, increase or
\* decrease with a TTL of which a store call has failed does not resolve, it
\* rejects once its Promise.all is reached; and whatever the call wrote with
\* success (primary cells, marker, counter increment) is in the store, failed
\* siblings or not.
PartialFailureKeepsWrites ==
    \A n \in DOMAIN calls :
        (/\ IsUser(n)
         /\ calls[n].op \in CreatingOps
         /\ calls[n].ttl > 0
         /\ calls[n].hist.alone)
            => /\ calls[n].bad # {} => calls[n].pc \in { "exists", "rejected" }
               /\ (calls[n].bad # {} /\ calls[n].pend = {}) => calls[n].pc = "rejected"
               /\ P \in done(calls[n]) => primaryCommitted(calls[n])
               /\ C \in done(calls[n]) => counterOf(meta) = calls[n].hist.preCount + 1
               /\ \A r \in done(calls[n]) :
                    r.k \in { "M", "MM" } => markerCommitted(calls[n], r)

\* C8 witness: a call with a TTL has rejected on a failed sub-write while
\* another of its sub-writes has been applied
RejectedWithWritesKept ==
    \E n \in DOMAIN calls :
        /\ IsUser(n)
        /\ calls[n].op \in CreatingOps
        /\ calls[n].ttl > 0
        /\ calls[n].hist.alone
        /\ calls[n].pc = "rejected"
        /\ calls[n].bad \cap calls[n].awaited # {}
        /\ done(calls[n]) # {}
        /\ calls[n].pend = {}

(***************************************************************************)
(* Properties of the read paths: SpecRead                                  *)
(***************************************************************************)

\* C7 Read paths: get, getRow and count change nothing in the store; when
\* the store reports the row as unknown they resolve to null, count() to 0;
\* when the store fails with another error they reject with that error.
ReadPaths ==
    [][ret' # ret =>
        /\ UNCHANGED << table, meta >>
        /\ ret'.answer = "unknown" =>
              /\ ret'.out = "resolved"
              /\ ret'.val = (IF ret'.op = "count" THEN Num(0) ELSE Null)
        /\ ret'.answer = "error" =>
              /\ ret'.out = "rejected"
              /\ ret'.val = [t |-> "error", v |-> ret'.err]]_vars

\* C7 witness: count() met an unknown counts row and resolved to 0
CountOfUnknownRow ==
    /\ ret.op = "count"
    /\ ret.answer = "unknown"
    /\ ret.out = "resolved"
    /\ ret.val = Num(0)

(***************************************************************************)
(* Properties of the cell codec: SpecCodec                                 *)
(***************************************************************************)

\* C10 Codec round-trip: once set has stored a JSON-representable value v
\* (an empty string apart), getParsedValue of the stored scalar is v again.
CodecRoundTrip ==
    \A n \in DOMAIN calls :
        (/\ IsUser(n)
         /\ calls[n].op = "set"
         /\ calls[n].hist.alone
         /\ calls[n].pc = "resolved"
         /\ calls[n].pend = {}
         /\ calls[n].value # Str(<< >>))
            => /\ target(calls[n]) \in DOMAIN table
               /\ getParsedValue(table[target(calls[n])]) = calls[n].value

(***************************************************************************)
(* SpecShard: the part client constructed with any shard count and seed;   *)
(* getTTLRowKey is called as the clock advances.                           *)
(***************************************************************************)

\* the arguments clusterCount and murmurSeed a client is constructed with
ClusterCounts == { Undefined, Num(1), Num(2), Num(3) }
MurmurSeeds == { Undefined, Num(0), Num(1), Num(2) }

InitShard ==
    /\ \E n \in ClusterCounts, s \in MurmurSeeds :
            constructed = [NotGiven EXCEPT !.clusterCount = n, !.murmurSeed = s]
    /\ impl = "part"
    /\ table = Empty
    /\ meta = Empty
    /\ now = 0
    /\ isInitialized = TRUE
    /\ tov = 1
    /\ loops = startJob(1, 0)
    /\ calls = Empty
    /\ nops = 0
    /\ nfail = 0
    /\ closed = NotClosed
    /\ wr = [c \in Cells |-> NoWrite]
    /\ swept = {}
    /\ ret = NoRead

\* this.getTTLRowKey(ttl), as set calls it for a ttl that is not 0
getTTLRowKeyCalled ==
    \E ttl \in TTLs \ { 0 } :
        /\ ret' = [op |-> "getTTLRowKey", ttl |-> ttl, at |-> now,
                   val |-> getTTLRowKey(ttl, now)]
        /\ UNCHANGED << constructed, impl, table, meta, now, isInitialized, tov, loops,
                        calls, nops, nfail, closed, wr, swept >>

NextShard ==
    \/ Tick
    \/ getTTLRowKeyCalled

SpecShard == InitShard /\ [][NextShard]_vars

(***************************************************************************)
(* Properties of the marker key: SpecShard                                 *)
(***************************************************************************)

\* the shard of expiry timestamp t for seed s and shardCount n
shardOf(t, s, n) == mod32(murmur(natToString(t), s), n)

\* C11 Shard of the marker key: on a client constructed with seed s and
\* shard count n >= 1, the key getTTLRowKey(ttl) returns at time now is
\* ttl#<shard>#<now + ttl * 1000> with shard = hash(now + ttl * 1000, s) mod n,
\* a number of 0 .. n - 1.
ShardOfMarkerKey ==
    (/\ ret.op = "getTTLRowKey"
     /\ constructed.murmurSeed.t = "num"
     /\ constructed.clusterCount.t = "num"
     /\ constructed.clusterCount.v >= 1)
    => LET t == ret.at + ret.ttl * MsPerSecond
           shard == shardOf(t, constructed.murmurSeed.v, constructed.clusterCount.v)
       IN  /\ shard \in 0..(constructed.clusterCount.v - 1)
           /\ ret.val = << "ttl", "#" >> \o natToString(shard) \o << "#" >> \o natToString(t)

(***************************************************************************)
(* Properties of close: SpecJob                                            *)
(***************************************************************************)

BothCounted ==
    /\ { userName(1), userName(2) } \subseteq DOMAIN calls
    /\ \A n \in { userName(1), userName(2) } :
        /\ calls[n].op \in CreatingOps
        /\ ~calls[n].hist.preExists
        /\ calls[n].hist.preCount = 0
        /\ { C, P } \subseteq done(calls[n])
        /\ calls[n].pc = "resolved"
        /\ calls[n].pend = {}
    /\ calls[userName(1)].rowKey = calls[userName(2)].rowKey

\* C13 Counter race: when two overlapping calls of set, multiSet, increase or
\* decrease on one new row key have both found the row absent and both
\* incremented the counter, the counter has grown by 2 while the primary
\* table holds the one row they wrote.
CounterRace ==
    BothCounted =>
        /\ counterOf(meta) = 2
        /\ { c[1] : c \in DOMAIN table } = { calls[userName(1)].rowKey }

\* C13 witness: two set calls of the part client have raced in that way
TwoSetsCountedTwice ==
    /\ BothCounted
    /\ impl = "part"
    /\ \A n \in DOMAIN calls : calls[n].op = "set"
    /\ counterOf(meta) = 2

(***************************************************************************)
(* Properties of the expiry filter: Spec                                   *)
(***************************************************************************)

\* the deletions a step dispatches for marker row key
dispatchedFor(key) ==
    { n \in DOMAIN calls' \ DOMAIN calls : ~IsUser(n) /\ n[4] = key }

\* C14 Expiry filter: when the scan of a cycle ends at time now, the cycle
\* dispatches the deletion of a marker written at w ms with value v, and of
\* its cell, if and only if w + v * 1000 <= now; a marker it does not delete
\* stays in the metadata table as it is.
ExpiryFilter ==
    [][\A l \in DOMAIN loops :
        (loops[l].pc = "scan" /\ loops'[l].pc # "scan") =>
            /\ meta' = meta
            /\ \A key \in DOMAIN meta : \A x \in etl(meta, key) :
                 ((x.timestamp \div MsPerSecond) + (x.value.v * MsPerSecond) <= now)
                 <=> { n[3] : n \in dispatchedFor(key) } = { "delete", "meta" }]_vars

(***************************************************************************)
(* SpecWrite: foreground calls of either client one after the other, each  *)
(* request by request, on a store that fails nothing, as the clock         *)
(* advances.                                                               *)
(***************************************************************************)

\* no call is in progress
Idle == \A n \in DOMAIN calls : IsOver(calls[n])

\* the increments multiAdd is given, one for all the columns of its data
Increments == { Num(0), Num(2) }

setAlone ==
    \E rowKey \in CallRowKeys, value \in Values, ttl \in CallTTLs, column \in ColumnArgs :
        Idle /\ Called("set", rowKey, { columnNameOf(column) }, value, ttl)

multiSetAlone ==
    \E rowKey \in CallRowKeys, value \in Values, ttl \in CallTTLs, keys \in SUBSET ColumnNames :
        Idle /\ keys # {} /\ Called("multiSet", rowKey, keys, value, ttl)

multiAddAlone ==
    \E rowKey \in CallRowKeys, value \in Increments, ttl \in CallTTLs,
       columnNames \in SUBSET ColumnNames :
        Idle /\ Called("multiAdd", rowKey, columnNames, value, ttl)

increaseAlone ==
    \E rowKey \in CallRowKeys, ttl \in CallTTLs, column \in ColumnArgs :
        Idle /\ Called("increase", rowKey, { columnOrDefault(column) }, Null, ttl)

decreaseAlone ==
    \E rowKey \in CallRowKeys, ttl \in CallTTLs, column \in ColumnArgs :
        Idle /\ Called("decrease", rowKey, { columnOrDefault(column) }, Null, ttl)

deleteAlone ==
    \E rowKey \in CallRowKeys, column \in ColumnArgs :
        Idle /\ Called("delete", rowKey, { columnOrDefault(column) }, Null, 0)

deleteRowAlone ==
    \E rowKey \in CallRowKeys :
        Idle /\ Called("deleteRow", rowKey, {}, Null, 0)

NextWrite ==
    \/ Tick
    \/ setAlone
    \/ multiSetAlone
    \/ multiAddAlone
    \/ increaseAlone
    \/ decreaseAlone
    \/ deleteAlone
    \/ deleteRowAlone
    \/ Serve

SpecWrite == InitCall /\ [][NextWrite]_vars

(***************************************************************************)
(* Properties of the writers: SpecWrite                                    *)
(***************************************************************************)

\* the marker rows of a metadata table
markers(m) == Without(m, { COUNTS })

\* a call of the user that has run alone to its end without a failure
Completed(n) ==
    /\ IsUser(n)
    /\ calls[n].hist.alone
    /\ calls[n].pc = "resolved"
    /\ calls[n].pend = {}
    /\ calls[n].bad = {}

\* C15 Marker writer: once a call of set, multiSet, multiAdd, increase or
\* decrease made on the part client at time t0 with ttl T > 0 has completed
\* without a failure, the metadata table holds for each column of the call a
\* cell of value T with qualifier <family>#<row>#<column> in the row
\* ttl#<shard>#<t0 + T * 1000>; and while the only call in progress has no
\* ttl, no marker row changes.
MarkerWriter ==
    /\ [](\A n \in DOMAIN calls :
            (/\ Completed(n)
             /\ calls[n].impl = "part"
             /\ calls[n].op \in CreatingOps \cup { "multiAdd" }
             /\ calls[n].ttl > 0)
            => LET t == calls[n].hist.t0 + calls[n].ttl * MsPerSecond
                   key == << "ttl", "#" >> \o natToString(shardOf(t, murmurSeed, clusterCount))
                                          \o << "#" >> \o natToString(t)
               IN  \A col \in calls[n].cols :
                     /\ key \in DOMAIN meta
                     /\ cfName \o << "#" >> \o calls[n].rowKey \o << "#" >> \o col
                            \in DOMAIN meta[key]
                     /\ meta[key][cfName \o << "#" >> \o calls[n].rowKey \o << "#" >> \o col].value
                            = Num(calls[n].ttl))
    /\ [][(\A n \in DOMAIN calls' : calls'[n].ttl = 0) => markers(meta') = markers(meta)]_vars

\* C15 witness: a multiSet of two columns with a ttl, made on the part client
\* after the clock has advanced, has completed
MultiSetWithTTLCompleted ==
    \E n \in DOMAIN calls :
        /\ Completed(n)
        /\ calls[n].impl = "part"
        /\ calls[n].op = "multiSet"
        /\ calls[n].ttl > 0
        /\ Cardinality(calls[n].cols) = 2
        /\ calls[n].hist.t0 > 0

(***************************************************************************)
(* Properties of the deletions of a cycle: SpecJob                         *)
(***************************************************************************)

\* C16 Deletions awaited: when the scan of a cycle ends, the deletions of all
\* the expired markers are dispatched in that one step; and when the cycle
\* ends and the loop arms the timer of the next one, every deletion the
\* cycle dispatched has completed or failed: none is still in progress.
DeletionsAwaited ==
    [][\A l \in DOMAIN loops :
        /\ (loops[l].pc = "scan" /\ loops'[l].pc # "scan" /\ nfail' = nfail)
            => \A key \in filteredRowKeys(meta, now) :
                 \E n \in loops'[l].tasks : n \notin DOMAIN calls /\ n[4] = key
        /\ (loops[l].pc = "deleting" /\ loops'[l].pc # "deleting")
            => \A n \in loops[l].tasks :
                 /\ n \in DOMAIN calls
                 /\ Settled(calls[n])
                 /\ calls[n].pend = {}]_vars

(***************************************************************************)
(* Properties of delete and deleteRow: SpecWrite                           *)
(***************************************************************************)

\* no marker of either client refers to the cell (rowKey, columnName)
NoMarkerOf(rowKey, columnName) ==
    /\ ttlRowKey(rowKey, columnName) \notin DOMAIN meta
    /\ \A key \in DOMAIN markers(meta) :
         columnQualifier(rowKey, columnName) \notin DOMAIN meta[key]

\* C17 Markers of deleted cells: once delete(rowKey, column) or
\* deleteRow(rowKey) has completed without a failure on a row that existed,
\* the metadata table holds no marker of the cell, or of any cell of the row,
\* it has deleted.
DeleteRemovesMarkers ==
    \A n \in DOMAIN calls :
        (Completed(n) /\ calls[n].op \in { "delete", "deleteRow" } /\ calls[n].hist.preExists)
        => \A columnName \in (IF calls[n].op = "delete" THEN calls[n].cols ELSE ColumnNames) :
             NoMarkerOf(calls[n].rowKey, columnName)

\* C18 Counter on delete: in a delete(rowKey, column) that runs alone the
\* counter is not updated before the cell is deleted; once the call has
\* completed, the counter is one below its value before the call if the row
\* existed then and is gone now, and at that value if the row still has
\* cells.
DeleteCounter ==
    \A n \in DOMAIN calls :
        (IsUser(n) /\ calls[n].hist.alone /\ calls[n].op = "delete")
        => /\ (C \in calls[n].pend \/ counterOf(meta) # calls[n].hist.preCount)
                => \A col \in calls[n].cols : << calls[n].rowKey, col >> \notin DOMAIN table
           /\ (Completed(n) /\ calls[n].hist.preExists /\ ~rowExists(table, calls[n].rowKey))
                => counterOf(meta) = calls[n].hist.preCount - 1
           /\ (Completed(n) /\ rowExists(table, calls[n].rowKey))
                => counterOf(meta) = calls[n].hist.preCount

\* C18 witness: a delete has completed that removed the last cell of a row
LastCellDeleted ==
    \E n \in DOMAIN calls :
        /\ Completed(n)
        /\ calls[n].op = "delete"
        /\ calls[n].hist.preExists
        /\ ~rowExists(table, calls[n].rowKey)
        /\ counterOf(meta) = calls[n].hist.preCount - 1

(***************************************************************************)
(* Properties of multiAdd: SpecWrite                                       *)
(***************************************************************************)

\* C19 Counter on multiAdd: once a multiAdd with an increment that is not 0,
\* run alone on a row key that did not exist, has completed without a
\* failure, the row exists and the counter, and so count(), is one above its
\* value before the call.
MultiAddCounts ==
    \A n \in DOMAIN calls :
        (/\ Completed(n)
         /\ calls[n].op = "multiAdd"
         /\ calls[n].cols # {}
         /\ calls[n].value.v # 0
         /\ ~calls[n].hist.preExists)
        => /\ rowExists(table, calls[n].rowKey)
           /\ counterOf(meta) = calls[n].hist.preCount + 1
           /\ countOf(meta, << >>) = resolved(Num(counterOf(meta)))

(***************************************************************************)
(* Properties of single-cell reads: SpecCodec                              *)
(***************************************************************************)

\* getRow(rowKey) on the store as it is, answered by the store
rowOf(rowKey) == retrieve(rowData(table, rowKey), rowKey, << >>, << >>).val

\* C20 Single-cell reads are decoded: what get(rowKey) returns for a cell
\* that set has stored is the decoded value of the cell, and it is the value
\* getRow(rowKey) returns under the column's name.
GetDecoded ==
    [][\A rowKey \in CallRowKeys :
        (/\ ret' # ret
         /\ ret'.op = "get"
         /\ ret'.answer = "data"
         /\ << rowKey, DEFAULT_COLUMN >> \in DOMAIN table)
        => /\ ret'.val = getParsedValue(table[<< rowKey, DEFAULT_COLUMN >>])
           /\ DEFAULT_COLUMN \in DOMAIN rowOf(rowKey).v
           /\ ret'.val = rowOf(rowKey).v[DEFAULT_COLUMN]]_vars

(***************************************************************************)
(* Properties of the decoding of a marker: Spec                            *)
(***************************************************************************)

\* the string holds the delimiter of the marker key
hasDelimiter(str) == \E i \in DOMAIN str : str[i] = "#"

\* C21 Owner decoding targets exactly the owning cell: the deletion a sweep
\* cycle dispatches for the marker that the writer encoded from a row key and
\* a column name without the delimiter '#' is aimed at that row key and that
\* column name, and at no other cell.
OwnerDecoding ==
    \A n \in DOMAIN calls : \A c \in Cells :
        (/\ ~IsUser(n)
         /\ calls[n].op = "delete"
         /\ ~hasDelimiter(c[1])
         /\ ~hasDelimiter(c[2])
         /\ n[4] = ttlRowKey(c[1], c[2]))
        => /\ calls[n].rowKey = c[1]
           /\ calls[n].cols = { c[2] }

(***************************************************************************)
(* SpecStart: the part client constructed with any interval, jitter        *)
(* bounds, shard count and seed; init() is called as the clock advances,   *)
(* the jitter timer fires and the client may be closed.                    *)
(***************************************************************************)

\* the arguments intervalInMs, minJitterMs and maxJitterMs of the constructor
Intervals == { Undefined, Num(0), Num(1000) }
MinJitters == { Undefined, Num(0), Num(1000), Num(2000) }
MaxJitters == { Undefined, Num(0), Num(2000), Num(3000) }

InitStart ==
    /\ constructed \in [intervalInMs : Intervals, minJitterMs : MinJitters,
                        maxJitterMs : MaxJitters, clusterCount : ClusterCounts,
                        murmurSeed : MurmurSeeds]
    /\ impl = "part"
    /\ table = Empty
    /\ meta = Empty
    /\ now = 0
    /\ isInitialized = FALSE
    /\ tov = 0
    /\ loops = Empty
    /\ calls = Empty
    /\ nops = 0
    /\ nfail = 0
    /\ closed = NotClosed
    /\ wr = [c \in Cells |-> NoWrite]
    /\ swept = {}
    /\ ret = NoRead

NextStart ==
    \/ init
    \/ Tick
    \/ jitterFires
    \/ close

SpecStart == InitStart /\ [][NextStart]_vars

(***************************************************************************)
(* Properties of the first activation: SpecStart                           *)
(***************************************************************************)

\* the value the spec gives to an argument that is 0 or missing
orDefault(x, d) == IF x = Undefined \/ x = Num(0) THEN d ELSE x.v

\* C22 First sweep activation: init() with minJitterMs <= maxJitterMs arms
\* one timer whose delay lies between the two bounds and runs no cycle
\* itself; the job runs only once that delay has elapsed; an interval, a
\* jitter bound, a shard count or a seed that is 0 or missing is replaced by
\* 5000, 2000, 30000, 3 and 1.
FirstActivation ==
    /\ [](/\ intervalInMs = orDefault(constructed.intervalInMs, 5000)
          /\ minJitterMs = orDefault(constructed.minJitterMs, 2000)
          /\ maxJitterMs = orDefault(constructed.maxJitterMs, 30000)
          /\ clusterCount = orDefault(constructed.clusterCount, 3)
          /\ murmurSeed = orDefault(constructed.murmurSeed, 1)
          /\ \A l \in DOMAIN loops : loops[l].pc = "job" => now >= loops[l].deadline)
    /\ [][(~isInitialized /\ isInitialized' /\ minJitterMs <= maxJitterMs)
            => /\ DOMAIN loops' = { tov' }
               /\ loops'[tov'].pc = "jitter"
               /\ loops'[tov'].deadline - now >= minJitterMs
               /\ loops'[tov'].deadline - now <= maxJitterMs]_vars

\* C22 witness: a client constructed with the jitter bounds 0 and 3000 was
\* initialised, and its job runs after the timer of init() has fired
JobRunsAfterJitter ==
    /\ isInitialized
    /\ constructed.minJitterMs = Num(0)
    /\ constructed.maxJitterMs = Num(3000)
    /\ \E l \in DOMAIN loops : loops[l].pc = "job" /\ loops[l].deadline > 0

(***************************************************************************)
(* Properties of a write without a TTL: Spec                               *)
(***************************************************************************)

\* C23 A cell whose most recent write is a set without a TTL is in the
\* primary table whatever the sweep job does, also when an earlier set of the
\* same cell carried a TTL that has elapsed since.
NoTTLNoExpiry ==
    \A c \in Cells :
        (wr[c].op = "set" /\ wr[c].ttl = 0) => c \in DOMAIN table

(***************************************************************************)
(* Properties of a cycle whose deletions fail: SpecJob                     *)
(***************************************************************************)

\* no cycle is in flight and no deletion of a cycle is still with the store
SweepAtRest ==
    /\ \A l \in DOMAIN loops : ~InFlight(l)
    /\ \A n \in DOMAIN calls : IsUser(n) \/ calls[n].pend = {}

\* C24 Expiry survives transient deletion failures: when the store may fail
\* a deletion, the sweep at rest never leaves a cell whose last write is a
\* set with a TTL in the primary table without its marker, since no later
\* cycle would find that cell.
ExpirySurvivesFailures ==
    \A c \in Cells :
        (/\ impl = "lib"
         /\ wr[c].op = "set"
         /\ wr[c].ttl > 0
         /\ c \in DOMAIN table
         /\ SweepAtRest)
        => ttlRowKey(c[1], c[2]) \in DOMAIN meta

(***************************************************************************)
(* Properties of the counter over calls made one at a time: SpecWrite      *)
(***************************************************************************)

\* the row keys that have a cell in the primary table
rowsOf(t) == { c[1] : c \in DOMAIN t }

\* C25 Sequential counter invariant: when the calls are made one at a time
\* and the store fails nothing, then after each call has completed the
\* live-row counter is the number of rows of the primary table, and so it
\* is never negative.
CounterIsRowCount ==
    Idle => /\ counterOf(meta) = Cardinality(rowsOf(table))
            /\ counterOf(meta) >= 0

(***************************************************************************)
(* SpecInit: init() of either client, store call by store call, on a store *)
(* that holds the tables and families already; init() may be called again  *)
(* at any time, the clock advances, the timers fire, the scans find        *)
(* nothing and the client may be closed.                                   *)
(***************************************************************************)

\* what init() awaits, in turn: exists() of the table, of its family, of the
\* metadata table and of its family
initAwaits == << "table", "family", "tableMetadata", "familyMetadata" >>

\* the k-th exists() that init() awaits
X(k) == Req("X", << >>, k)

InitInit ==
    /\ constructed = NotGiven
    /\ impl \in { "lib", "part" }
    /\ table = Empty
    /\ meta = Empty
    /\ now = 0
    /\ isInitialized = FALSE
    /\ tov = 0
    /\ loops = Empty
    /\ calls = Empty
    /\ nops = 0
    /\ nfail = 0
    /\ closed = NotClosed
    /\ wr = [c \in Cells |-> NoWrite]
    /\ swept = {}
    /\ ret = NoRead

\* init() is called: it returns at once on an initialised client, else it
\* awaits the first exists()
initCalled ==
    /\ nops < MaxOps
    /\ nops' = nops + 1
    /\ calls' = IF isInitialized THEN calls
                ELSE Over(calls,
                          (userName(nops + 1) :>
                             NewCall(impl, "init", 0, << >>, {}, Null, 0,
                                     [pc |-> "all", pend |-> { X(1) }, awaited |-> {}],
                                     NoHist)))
    /\ UNCHANGED << constructed, impl, table, meta, now, isInitialized, tov, loops, nfail,
                    closed, wr, swept, ret >>

\* The store answers the exists() an init() awaits: init() awaits the next
\* one, and after the last it sets this.isInitialized and starts the job.
initAnswered ==
    \E n \in DOMAIN calls :
        /\ calls[n].op = "init"
        /\ \E r \in calls[n].pend :
            IF r.ts < Len(initAwaits)
            THEN /\ calls' = [calls EXCEPT ![n].pend = { X(r.ts + 1) }]
                 /\ UNCHANGED << isInitialized, tov, loops >>
            ELSE /\ calls' = [calls EXCEPT ![n].pend = {}, ![n].pc = "resolved"]
                 /\ isInitialized' = TRUE
                 /\ startsJob
        /\ UNCHANGED << constructed, impl, table, meta, now, nops, nfail, closed, wr, swept,
                        ret >>

NextInit ==
    \/ initCalled
    \/ initAnswered
    \/ Tick
    \/ timerFires
    \/ jitterFires
    \/ scanEnd
    \/ close

SpecInit == InitInit /\ [][NextInit]_vars

(***************************************************************************)
(* Properties of init(): SpecInit                                          *)
(***************************************************************************)

\* C26 init() starts the sweep job at most once: however init() is called
\* again, after the first call has completed or while it awaits the store,
\* there is one sweep loop at most, so at most one timer is pending and at
\* most one cycle is in flight, and a close() while no cycle is in flight
\* leaves no timer pending.
InitStartsOneJob ==
    /\ [](/\ Cardinality(DOMAIN loops) <= 1
          /\ Cardinality({ l \in DOMAIN loops : Pending(l) }) <= 1
          /\ Cardinality({ l \in DOMAIN loops : InFlight(l) }) <= 1)
    /\ [][(closed'.n = closed.n + 1 /\ \A l \in DOMAIN loops : ~InFlight(l))
            => \A l \in DOMAIN loops' : ~(loops'[l].pc \in { "armed", "jitter" })]_vars

=============================================================================
